---------------------------- MODULE Spec2Model ----------------------------
(***************************************************************************)
(* A model of egg-restful: the parameter resolver (Tools.getValue and its  *)
(* batch variants), the five resource-verb handlers of libs/tools.js and   *)
(* the error-translating middleware of app/middleware/restful.js.          *)
(*                                                                         *)
(* JavaScript values are tagged records; a JavaScript string is the        *)
(* sequence of its characters, so that the validator library's parsing     *)
(* functions are computed rather than assumed.                             *)
(***************************************************************************)
EXTENDS Integers, Sequences, FiniteSets, TLC

(***************************************************************************)
(* JavaScript values                                                       *)
(***************************************************************************)
Undefined == [t |-> "undefined"]
Null == [t |-> "null"]
NaN == [t |-> "NaN"]
Bool(b) == [t |-> "boolean", v |-> b]
Num(n) == [t |-> "number", v |-> n]
Str(s) == [t |-> "string", v |-> s]
Fn(name) == [t |-> "function", name |-> name]
Arr(items) == [t |-> "array", items |-> items]
Obj(fields) == [t |-> "object", fields |-> fields]

\* The module-private Symbol() of libs/tools.js.
HttpErrorType == [t |-> "symbol", id |-> "HttpErrorType"]

\* o[k] of a JavaScript object held as a function from its own keys.
Get(o, k) == IF k \in DOMAIN o THEN o[k] ELSE Undefined

\* Object.assign(target, source) on such objects.
ObjectAssign(target, source) ==
  [k \in (DOMAIN target) \cup (DOMAIN source) |->
     IF k \in DOMAIN source THEN source[k] ELSE target[k]]

\* JavaScript truthiness (ToBoolean).
Truthy(v) ==
  CASE v.t = "undefined" -> FALSE
    [] v.t = "null" -> FALSE
    [] v.t = "NaN" -> FALSE
    [] v.t = "boolean" -> v.v
    [] v.t = "number" -> v.v # 0
    [] v.t = "string" -> v.v # <<>>
    [] OTHER -> TRUE

\* v instanceof Function
IsFunction(v) == v.t = "function"

(***************************************************************************)
(* The validator library's leaves used by the handlers: isInt, isBoolean,  *)
(* toBoolean, and the built-in parseInt.                                   *)
(***************************************************************************)
DigitChars == <<"0", "1", "2", "3", "4", "5", "6", "7", "8", "9",
                "a", "b", "c", "d", "e", "f">>

\* The value of a digit character; NoDigit, above every radix, for any other.
NoDigit == Len(DigitChars)

DigitVal(c) ==
  IF \E i \in 1..Len(DigitChars) : DigitChars[i] = c
  THEN (CHOOSE i \in 1..Len(DigitChars) : DigitChars[i] = c) - 1
  ELSE NoDigit

IsSign(c) == c \in {"+", "-"}

\* The characters of s after an optional leading sign.
Unsigned(s) == IF s # <<>> /\ IsSign(s[1]) THEN Tail(s) ELSE s

SignOf(s) == IF s # <<>> /\ s[1] = "-" THEN -1 ELSE 1

\* The longest prefix of s made of digits of the radix.
RECURSIVE DigitPrefix(_, _)
DigitPrefix(s, radix) ==
  IF s = <<>> \/ DigitVal(s[1]) >= radix THEN <<>>
  ELSE <<s[1]>> \o DigitPrefix(Tail(s), radix)

\* The number a sequence of digits denotes.
RECURSIVE DigitsValue(_, _)
DigitsValue(s, radix) ==
  IF s = <<>> THEN 0
  ELSE DigitsValue(SubSeq(s, 1, Len(s) - 1), radix) * radix + DigitVal(s[Len(s)])

\* parseInt(string, radix): an optional sign, then the longest run of digits;
\* NaN when there is none.  An absent radix means 10 (no validated input
\* carries a 0x prefix).
parseInt(v, radix) ==
  LET r == IF radix.t = "number" THEN radix.v ELSE 10
      s == IF v.t = "string" THEN v.v ELSE <<>>
      d == DigitPrefix(Unsigned(s), r)
  IN IF d = <<>> THEN NaN ELSE Num(SignOf(s) * DigitsValue(d, r))

\* validator's isInt(str, options): /^[-+]?[0-9]+$/ and, when options has a
\* min, str >= options.min.
isInt(v, options) ==
  LET s == v.v
      u == Unsigned(s)
      shape == u # <<>> /\ \A i \in 1..Len(u) : DigitVal(u[i]) < 10
      hasMin == options.t = "object" /\ "min" \in DOMAIN options.fields
  IN Bool(/\ shape
          /\ hasMin => SignOf(s) * DigitsValue(u, 10) >= options.fields["min"].v)

StrTrue == <<"t", "r", "u", "e">>
StrFalse == <<"f", "a", "l", "s", "e">>

\* validator's isBoolean(str): one of 'true', 'false', '1', '0'.
isBoolean(v) == Bool(v.v \in {StrTrue, StrFalse, <<"1">>, <<"0">>})

\* validator's toBoolean(str, strict).
toBoolean(v, strict) ==
  IF Truthy(strict)
  THEN Bool(v.v \in {<<"1">>, StrTrue})
  ELSE Bool(v.v \notin {<<"0">>, StrFalse, <<>>})

\* A call f(args) of one of the functions above; an argument that is not
\* passed is undefined.
Arg(args, i) == IF i <= Len(args) THEN args[i] ELSE Undefined

Apply(f, args) ==
  CASE f.name = "isInt" -> isInt(Arg(args, 1), Arg(args, 2))
    [] f.name = "isBoolean" -> isBoolean(Arg(args, 1))
    [] f.name = "toBoolean" -> toBoolean(Arg(args, 1), Arg(args, 2))
    [] f.name = "parseInt" -> parseInt(Arg(args, 1), Arg(args, 2))
    [] OTHER -> Undefined

\* One entry of the log of calls a resolution makes.
Call(role, f, args) == [role |-> role, fn |-> f.name, args |-> args]

(***************************************************************************)
(* Tools.createHttpError, Tools.isHttpError                                *)
(***************************************************************************)
createHttpError(msg, status) ==
  Obj([type |-> HttpErrorType, msg |-> msg, status |-> status])

\* e.type === HttpErrorType; a primitive has no property type.
isHttpError(e) == e.t = "object" /\ Get(e.fields, "type") = HttpErrorType

\* The three messages of libs/tools.js, which the source writes in Chinese: the
\* default error of getValue, the conflict of create, and the missing resource
\* of update, destroy and show.
MsgBadFormat == "invalid parameter format"
MsgExists == "resource already exists"
MsgNotFound == "resource not found"

(***************************************************************************)
(* Tools.getValue                                                          *)
(***************************************************************************)
Return(v, calls) == [kind |-> "return", value |-> v, calls |-> calls]
Throw(e, calls) == [kind |-> "throw", value |-> e, calls |-> calls]

\* The options of getValue over its defaults.
mergeOptions(options) ==
  ObjectAssign([require |-> Bool(FALSE),
                error |-> createHttpError(Str(MsgBadFormat), Num(400))],
               options)

\* Mutant: the default is handed out before the required check is made.
absentValueDefaultFirst(o, options) ==
  IF "default" \in DOMAIN options THEN Return(options["default"], <<>>)
  ELSE IF Truthy(Get(o, "require")) THEN Throw(Get(o, "error"), <<>>)
  ELSE Return(Undefined, <<>>)

\* The branch of getValue for value === undefined.
absentValue(o, options) ==
  IF Truthy(Get(o, "require")) THEN Throw(Get(o, "error"), <<>>)
  ELSE Return(Get(options, "default"), <<>>)

\* The validator step: the log of its call, and whether the value is refused.
runValidator(value, validator) ==
  IF ~Truthy(validator) THEN [calls |-> <<>>, refused |-> FALSE]
  ELSE IF IsFunction(validator)
  THEN [calls |-> <<Call("validator", validator, <<value>>)>>,
        refused |-> ~Truthy(Apply(validator, <<value>>))]
  ELSE LET func == validator.items[1]
           arg == validator.items[2]
       IN [calls |-> <<Call("validator", func, <<value, arg>>)>>,
           refused |-> ~Truthy(Apply(func, <<value, arg>>))]

\* Mutant: the tuple form of type drops its extra arguments.
convertTypeNoArgs(value, type, calls) ==
  IF ~Truthy(type) THEN Return(value, calls)
  ELSE LET func == IF IsFunction(type) THEN type ELSE type.items[1]
       IN Return(Apply(func, <<value>>), Append(calls, Call("type", func, <<value>>)))

\* The type conversion step.
convertType(value, type, calls) ==
  IF ~Truthy(type) THEN Return(value, calls)
  ELSE IF IsFunction(type)
  THEN Return(Apply(type, <<value>>), Append(calls, Call("type", type, <<value>>)))
  ELSE LET func == type.items[1]
           args == <<value>> \o Tail(type.items)
       IN Return(Apply(func, args), Append(calls, Call("type", func, args)))

getValue(value, options) ==
  LET o == mergeOptions(options)
      v == runValidator(value, Get(o, "validator"))
  IN IF value = Undefined THEN absentValue(o, options)
     ELSE IF v.refused THEN Throw(Get(o, "error"), v.calls)
     ELSE convertType(value, Get(o, "type"), v.calls)

(***************************************************************************)
(* Batch resolution: getParams, getBodys, getQuerys                        *)
(***************************************************************************)
\* The result of a batch call: what it returns or throws, and the source map
\* of the context as the call leaves it.
BatchReturn(values, source) == [kind |-> "return", value |-> values, source |-> source]
BatchThrow(e, source) == [kind |-> "throw", value |-> e, source |-> source]

\* values[name] = v
SetKey(values, name, v) ==
  [k \in (DOMAIN values) \cup {name} |-> IF k = name THEN v ELSE values[k]]

\* Mutant: values aliases the source map instead of copying it.
RECURSIVE resolveLoopAlias(_, _, _, _)
resolveLoopAlias(source, values, options, i) ==
  IF i > Len(options) THEN BatchReturn(source, source)
  ELSE LET name == options[i][1]
           r == getValue(Get(source, name), options[i][2])
       IN IF r.kind = "throw" THEN BatchThrow(r.value, source)
          ELSE resolveLoopAlias(SetKey(source, name, r.value), values, options, i + 1)

\* for (const name in options) values[name] = this.getXxx(name, options[name]),
\* options being the sequence of its <<name, FieldOptions>> entries in key order.
RECURSIVE resolveLoop(_, _, _, _)
resolveLoop(source, values, options, i) ==
  IF i > Len(options) THEN BatchReturn(values, source)
  ELSE LET name == options[i][1]
           r == getValue(Get(source, name), options[i][2])
       IN IF r.kind = "throw" THEN BatchThrow(r.value, source)
          ELSE resolveLoop(source, SetKey(values, name, r.value), options, i + 1)

\* const values = Object.assign({}, source); the loop; return values.
resolveBatch(source, options) ==
  resolveLoop(source, ObjectAssign(<<>>, source), options, 1)

getParams(params, options) == resolveBatch(params, options)
getBodys(body, options) == resolveBatch(body, options)
getQuerys(query, options) == resolveBatch(query, options)

(***************************************************************************)
(* Tools.render, and the pure parts of Tools.update and Tools.index        *)
(***************************************************************************)
\* this.render(entity, render): the call it makes and what it resolves with.
render(entity, fn) ==
  IF IsFunction(fn)
  THEN [call |-> [op |-> "render", arg |-> entity],
        result |-> Obj([rendered |-> entity])]
  ELSE [call |-> [op |-> "toJSON", arg |-> entity],
        result |-> Obj([json |-> entity])]

\* append(x) of a caller's append function.
Appended(x) == Obj([appended |-> x])

\* Mutant: every key of values is assigned, undefined or not.
updateAssignAll(entity, values) ==
  [k \in (DOMAIN entity) \cup (DOMAIN values) |->
     IF k \in DOMAIN values THEN values[k] ELSE entity[k]]

\* for (const key in values) { if (values[key] === undefined) continue;
\* entity[key] = values[key]; }
updateAssign(entity, values) ==
  LET assigned == {k \in DOMAIN values : values[k] # Undefined}
  IN [k \in (DOMAIN entity) \cup assigned |->
        IF k \in assigned THEN values[k] ELSE entity[k]]

\* The options index hands to getQuerys, in key order.
BoolControl ==
  [require |-> Bool(FALSE), default |-> Bool(TRUE),
   validator |-> Fn("isBoolean"), type |-> Fn("toBoolean")]

IntControl ==
  [require |-> Bool(FALSE),
   validator |-> Arr(<<Fn("isInt"), Obj([min |-> Num(1)])>>),
   type |-> Fn("parseInt")]

indexQueryOptions ==
  <<<<"with_data", BoolControl>>, <<"with_total", BoolControl>>,
    <<"limit", IntControl>>, <<"page", IntControl>>, <<"offset", IntControl>>>>

DefaultLimit == 20

\* Mutant: a raw offset wins over page.
paginateOffsetFirst(options, limit, page, offset) ==
  IF Truthy(page) \/ Truthy(offset)
  THEN LET lim == IF Truthy(limit) THEN limit ELSE Num(DefaultLimit)
       IN SetKey(SetKey(options, "limit", lim), "offset",
                 IF Truthy(offset) THEN offset ELSE Num((page.v - 1) * lim.v))
  ELSE IF Truthy(limit) THEN SetKey(options, "limit", limit)
  ELSE options

\* The pagination block of index, on the resolved query controls.
paginate(options, limit, page, offset) ==
  IF Truthy(page) \/ Truthy(offset)
  THEN LET lim == IF Truthy(limit) THEN limit ELSE Num(DefaultLimit)
       IN SetKey(SetKey(options, "limit", lim), "offset",
                 IF Truthy(page) THEN Num((page.v - 1) * lim.v) ELSE offset)
  ELSE IF Truthy(limit) THEN SetKey(options, "limit", limit)
  ELSE options

\* { data, meta: { limit: options.limit, page, offset: options.offset, total } }
indexResult(options, dataList, page, total) ==
  Obj([data |-> Arr(dataList),
       meta |-> Obj([limit |-> Get(options, "limit"), page |-> page,
                     offset |-> Get(options, "offset"), total |-> total])])

(***************************************************************************)
(* The middleware's reading of a caught value                              *)
(***************************************************************************)
\* What const { msg, status } = e throws on a value with no properties.
TypeError == Obj([name |-> Str("TypeError")])

\* const { msg, status } = e
destructure(e) ==
  IF e \in {Null, Undefined} THEN [kind |-> "throw", value |-> TypeError]
  ELSE IF e.t = "object"
  THEN [kind |-> "return", msg |-> Get(e.fields, "msg"), status |-> Get(e.fields, "status")]
  ELSE [kind |-> "return", msg |-> Undefined, status |-> Undefined]

(***************************************************************************)
(* State                                                                   *)
(***************************************************************************)
VARIABLES
  gvValue,    \* getValue: the raw value
  gvOptions,  \* getValue: the FieldOptions
  gvResult,   \* getValue: what the call returned or threw, None before it
  bKind,      \* batch call: which of params, body, query is resolved
  bOptions,   \* batch call: the options map, as its entries in key order
  bCtx,       \* batch call: the context's source maps
  bCtx0,      \* batch call: the source maps as they were before the call
  bResult,    \* batch call: what the call returned or threw, None before it
  verb,       \* request: what the controller behind the middleware does
  pc,         \* request: where the request stands (the await it is suspended at)
  query,      \* request: ctx.query
  options,    \* request: the options object handed to the verb handler
  options0,   \* request: that object as the caller passed it
  renderFn,   \* request: the render argument
  appendFn,   \* request: the append argument
  ctx,        \* request: ctx.status and ctx.body
  writes,     \* request: every write of the response, in order, with its writer
  calls,      \* request: every model, entity, render and append call, in order
  found,      \* request: what findOrCreate, findOne or findAll resolved with
  entity,     \* request: the entity in hand of update
  rest,       \* request: index, the entities still to render
  data,       \* request: index, the rendered entities so far
  loc,        \* request: index, the resolved query controls
  chain,      \* request: how the downstream chain ended
  mw          \* request: how the middleware ended

valueVars == <<gvValue, gvOptions, gvResult>>
batchVars == <<bKind, bOptions, bCtx, bCtx0, bResult>>
inputVars == <<verb, query, options0, renderFn, appendFn>>
reqVars == <<verb, pc, query, options, options0, renderFn, appendFn, ctx, writes,
             calls, found, entity, rest, data, loc, chain, mw>>
vars == <<valueVars, batchVars, reqVars>>

None == [t |-> "none"]

\* A key an object literal does not hold.
Absent == [t |-> "absent"]

\* The object holding the keys of f that are not Absent.
MkObj(f) == [k \in {x \in DOMAIN f : f[x] # Absent} |-> f[k]]

(***************************************************************************)
(* Inputs                                                                  *)
(***************************************************************************)
\* Longest digit string drawn as a raw value.
MaxStrLen == 2

RECURSIVE DigitStrings(_)
DigitStrings(n) ==
  IF n = 0 THEN {<<>>}
  ELSE LET shorter == DigitStrings(n - 1)
       IN shorter \cup {Append(s, c) : s \in {x \in shorter : Len(x) = n - 1},
                                        c \in {"0", "1", "a"}}

RawStrings ==
  DigitStrings(MaxStrLen) \cup {<<"-", "1">>, <<"+", "1">>, <<"x">>, StrTrue, StrFalse}

RawValues == {Undefined} \cup {Str(s) : s \in RawStrings}

CustomError == createHttpError(Str("custom"), Num(422))

Validators ==
  {Absent, Fn("isInt"), Fn("isBoolean"),
   Arr(<<Fn("isInt"), Obj([min |-> Num(1)])>>)}

Types ==
  {Absent, Fn("parseInt"), Fn("toBoolean"),
   Arr(<<Fn("parseInt"), Num(16)>>), Arr(<<Fn("toBoolean"), Bool(TRUE)>>)}

FieldOptionsSet ==
  {MkObj([require |-> r, error |-> e, default |-> d, validator |-> v, type |-> ty]) :
     r \in {Absent, Bool(TRUE), Bool(FALSE)},
     e \in {Absent, CustomError},
     d \in {Absent, Bool(TRUE), Str(<<"7">>)},
     v \in Validators,
     ty \in Types}

BatchNames == {"id", "n"}
BatchKeys == BatchNames \cup {"z"}

BatchSources ==
  {MkObj(f) : f \in [BatchKeys -> {Absent, Str(<<"1">>), Str(<<"x">>)}]}

BatchFieldOptions ==
  {<<>>,
   [require |-> Bool(TRUE)],
   [default |-> Str(<<"7">>)],
   [validator |-> Arr(<<Fn("isInt"), Obj([min |-> Num(1)])>>), type |-> Fn("parseInt")],
   [require |-> Bool(TRUE), error |-> CustomError]}

BatchOptions ==
  {<<>>}
  \cup {<<<<n, o>>>> : n \in BatchNames, o \in BatchFieldOptions}
  \cup {<<<<p[1], o1>>, <<p[2], o2>>>> :
          p \in {x \in BatchNames \X BatchNames : x[1] # x[2]},
          o1 \in BatchFieldOptions, o2 \in BatchFieldOptions}

EmptyCtx == [params |-> <<>>, body |-> <<>>, query |-> <<>>]

\* The request variables of a specification that runs no request.
IdleRequest ==
  /\ verb = "none" /\ pc = "idle" /\ query = <<>>
  /\ options = <<>> /\ options0 = <<>>
  /\ renderFn = Undefined /\ appendFn = Undefined
  /\ ctx = [status |-> Undefined, body |-> Undefined]
  /\ writes = <<>> /\ calls = <<>>
  /\ found = None /\ entity = None /\ rest = <<>> /\ data = <<>> /\ loc = None
  /\ chain = None /\ mw = None

(***************************************************************************)
(* Specification of the resolver: one getValue call on drawn inputs        *)
(***************************************************************************)
InitValue ==
  /\ gvValue \in RawValues
  /\ gvOptions \in FieldOptionsSet
  /\ gvResult = None
  /\ bKind = "params" /\ bOptions = <<>> /\ bCtx = EmptyCtx /\ bCtx0 = EmptyCtx
  /\ bResult = None
  /\ IdleRequest

GetValueCall ==
  /\ gvResult = None
  /\ gvResult' = getValue(gvValue, gvOptions)
  /\ UNCHANGED <<gvValue, gvOptions, batchVars, reqVars>>

NextValue == GetValueCall

SpecValue == InitValue /\ [][NextValue]_vars

(***************************************************************************)
(* Specification of the batch calls                                        *)
(***************************************************************************)
InitBatch ==
  /\ gvValue = Undefined /\ gvOptions = <<>> /\ gvResult = None
  /\ bKind \in {"params", "body", "query"}
  /\ bOptions \in BatchOptions
  /\ \E src \in BatchSources : bCtx = [EmptyCtx EXCEPT ![bKind] = src]
  /\ bCtx0 = bCtx
  /\ bResult = None
  /\ IdleRequest

GetParamsCall ==
  /\ bResult = None /\ bKind = "params"
  /\ LET r == getParams(bCtx.params, bOptions)
     IN /\ bResult' = [kind |-> r.kind, value |-> r.value]
        /\ bCtx' = [bCtx EXCEPT !.params = r.source]
  /\ UNCHANGED <<valueVars, bKind, bOptions, bCtx0, reqVars>>

GetBodysCall ==
  /\ bResult = None /\ bKind = "body"
  /\ LET r == getBodys(bCtx.body, bOptions)
     IN /\ bResult' = [kind |-> r.kind, value |-> r.value]
        /\ bCtx' = [bCtx EXCEPT !.body = r.source]
  /\ UNCHANGED <<valueVars, bKind, bOptions, bCtx0, reqVars>>

GetQuerysCall ==
  /\ bResult = None /\ bKind = "query"
  /\ LET r == getQuerys(bCtx.query, bOptions)
     IN /\ bResult' = [kind |-> r.kind, value |-> r.value]
        /\ bCtx' = [bCtx EXCEPT !.query = r.source]
  /\ UNCHANGED <<valueVars, bKind, bOptions, bCtx0, reqVars>>

NextBatch == GetParamsCall \/ GetBodysCall \/ GetQuerysCall

SpecBatch == InitBatch /\ [][NextBatch]_vars

(***************************************************************************)
(* Specification of a request: the middleware around a controller that     *)
(* calls one verb handler, or ends on its own                              *)
(***************************************************************************)
\* Longest list findAll resolves with.
MaxList == 2

Entity(i) == [id |-> Num(i), a |-> Num(0), b |-> Num(0), c |-> Num(0)]

Entities == {Entity(1), Entity(2)}

RECURSIVE EntityLists(_)
EntityLists(n) ==
  IF n = 0 THEN {<<>>}
  ELSE LET shorter == EntityLists(n - 1)
       IN shorter \cup {Append(l, e) : l \in {x \in shorter : Len(x) = n - 1},
                                        e \in Entities}

Totals == {Num(0), Num(7)}

\* A filter of the caller.
Where == Obj([owner |-> Num(1)])

\* What a failing model or entity call rejects with.
DbError == Obj([name |-> Str("SequelizeError")])

\* What a controller may throw on its own.
Throwables ==
  {createHttpError(Str("teapot"), Num(418)),
   Obj([msg |-> Str("teapot"), status |-> Num(418)]),
   Obj([type |-> Str("HttpErrorType"), msg |-> Str("teapot"), status |-> Num(418)]),
   Obj([type |-> [t |-> "symbol", id |-> "other"], msg |-> Str("teapot"),
        status |-> Num(418)]),
   DbError, Str("boom"), Num(418), Null, Undefined}

RenderArgs == {Undefined, Fn("render")}
AppendArgs == {Bool(FALSE), Fn("append")}

IndexQueries ==
  {MkObj([limit |-> l, page |-> p, offset |-> o, with_data |-> d, with_total |-> t]) :
     l \in {Absent, Str(<<"1", "0">>), Str(<<"x">>)},
     p \in {Absent, Str(<<"1">>), Str(<<"2">>), Str(<<"0">>)},
     o \in {Absent, Str(<<"5">>)},
     d \in {Absent, Str(StrTrue), Str(StrFalse), Str(<<"x">>)},
     t \in {Absent, Str(<<"1">>), Str(<<"0">>)}}

IndexOptions ==
  {MkObj([where |-> Where, limit |-> l, offset |-> o]) :
     l \in {Absent, Num(7)}, o \in {Absent, Num(3)}}

UpdateValues == {MkObj(f) : f \in [{"a", "b"} -> {Absent, Undefined, Num(1)}]}

Input(v, q, o, r, a) ==
  [verb |-> v, query |-> q, options |-> o, renderFn |-> r, appendFn |-> a]

Inputs ==
  {Input("create", <<>>, [where |-> Where], r, Bool(FALSE)) : r \in RenderArgs}
  \cup {Input("update", <<>>, [where |-> Where, values |-> v], Undefined, Bool(FALSE)) :
          v \in UpdateValues}
  \cup {Input("destroy", <<>>, Where, Undefined, Bool(FALSE))}
  \cup {Input("show", <<>>, Where, r, a) : r \in RenderArgs, a \in AppendArgs}
  \cup {Input("other", <<>>, <<>>, Undefined, Bool(FALSE))}

IndexInputs ==
  {Input("index", q, o, r, a) :
     q \in IndexQueries, o \in IndexOptions, r \in RenderArgs, a \in AppendArgs}

Returned == [kind |-> "returned", value |-> Undefined]
Threw(e) == [kind |-> "threw", value |-> e]

\* A request with input i, before the middleware is entered.
StartRequest(i) ==
  /\ gvValue = Undefined /\ gvOptions = <<>> /\ gvResult = None
  /\ bKind = "params" /\ bOptions = <<>> /\ bCtx = EmptyCtx /\ bCtx0 = EmptyCtx
  /\ bResult = None
  /\ verb = i.verb /\ query = i.query
  /\ options = i.options /\ options0 = i.options
  /\ renderFn = i.renderFn /\ appendFn = i.appendFn
  /\ pc = "start"
  /\ ctx = [status |-> Undefined, body |-> Undefined]
  /\ writes = <<>> /\ calls = <<>>
  /\ found = None /\ entity = None /\ rest = <<>> /\ data = <<>> /\ loc = None
  /\ chain = None /\ mw = None

Init == \E i \in Inputs : StartRequest(i)

InitIndex == \E i \in IndexInputs : StartRequest(i)

\* Tools.response: ctx.status = status; ctx.body = body.
response(body, status) ==
  /\ ctx' = [status |-> Num(status), body |-> body]
  /\ writes' = Append(writes, [by |-> "handler", status |-> Num(status), body |-> body])

\* Tools.error: this.response({ msg }, status).
error(msg, status) == response(Obj([msg |-> Str(msg)]), status)

\* The handler returns to the controller, which returns to the middleware.
HandlerReturns == pc' = "chain_done" /\ chain' = Returned

\* ctx.restful = new Tools(ctx); await next(ctx)
MiddlewareEnter ==
  /\ pc = "start"
  /\ pc' = "controller"
  /\ UNCHANGED <<valueVars, batchVars, inputVars, options, ctx, writes, calls, found,
                 entity, rest, data, loc, chain, mw>>

\* A controller that calls no verb handler: it returns, or throws a value.
ControllerOther ==
  /\ pc = "controller" /\ verb = "other"
  /\ pc' = "chain_done"
  /\ chain' \in {Returned} \cup {Threw(e) : e \in Throwables}
  /\ UNCHANGED <<valueVars, batchVars, inputVars, options, ctx, writes, calls, found,
                 entity, rest, data, loc, mw>>

\* The awaits of a model or entity call.
ModelAwaits ==
  {"create_findOrCreate", "update_findOne", "update_save", "destroy_findOne",
   "destroy_destroy", "show_findOne", "index_findAll", "index_count"}

\* The awaited model or entity call rejects: the handler ends with that error.
ModelCallFails ==
  /\ pc \in ModelAwaits
  /\ pc' = "chain_done"
  /\ chain' = Threw(DbError)
  /\ UNCHANGED <<valueVars, batchVars, inputVars, options, ctx, writes, calls, found,
                 entity, rest, data, loc, mw>>

(***************************************************************************)
(* Tools.create                                                            *)
(***************************************************************************)
CreateStart ==
  /\ pc = "controller" /\ verb = "create"
  /\ calls' = Append(calls, [op |-> "findOrCreate", arg |-> options])
  /\ pc' = "create_findOrCreate"
  /\ UNCHANGED <<valueVars, batchVars, inputVars, options, ctx, writes, found,
                 entity, rest, data, loc, chain, mw>>

\* Mutant: the conflict is thrown as an HTTP error instead of being answered.
CreateFoundThrows ==
  /\ pc = "create_findOrCreate"
  /\ \E e \in Entities, status \in BOOLEAN :
       /\ found' = [entity |-> e, status |-> Bool(status)]
       /\ IF ~status
          THEN /\ pc' = "chain_done"
               /\ chain' = Threw(createHttpError(Str(MsgExists), Num(409)))
               /\ UNCHANGED <<calls, ctx, writes>>
          ELSE /\ calls' = Append(calls, render(e, renderFn).call)
               /\ pc' = "create_render"
               /\ UNCHANGED <<ctx, writes, chain>>
  /\ UNCHANGED <<valueVars, batchVars, inputVars, options, entity, rest, data, loc, mw>>

\* Mutant: the entity is rendered before the status is looked at.
CreateFoundRendersFirst ==
  /\ pc = "create_findOrCreate"
  /\ \E e \in Entities, status \in BOOLEAN :
       /\ found' = [entity |-> e, status |-> Bool(status)]
       /\ calls' = Append(calls, render(e, renderFn).call)
       /\ IF ~status
          THEN error(MsgExists, 409) /\ HandlerReturns
          ELSE pc' = "create_render" /\ UNCHANGED <<ctx, writes, chain>>
  /\ UNCHANGED <<valueVars, batchVars, inputVars, options, entity, rest, data, loc, mw>>

\* findOrCreate resolves; if (!status) return this.error(..., 409); else the
\* entity is handed to this.render.
CreateFound ==
  /\ pc = "create_findOrCreate"
  /\ \E e \in Entities, status \in BOOLEAN :
       /\ found' = [entity |-> e, status |-> Bool(status)]
       /\ IF ~status
          THEN error(MsgExists, 409) /\ HandlerReturns /\ UNCHANGED calls
          ELSE /\ calls' = Append(calls, render(e, renderFn).call)
               /\ pc' = "create_render"
               /\ UNCHANGED <<ctx, writes, chain>>
  /\ UNCHANGED <<valueVars, batchVars, inputVars, options, entity, rest, data, loc, mw>>

CreateRendered ==
  /\ pc = "create_render"
  /\ response(render(found.entity, renderFn).result, 201)
  /\ HandlerReturns
  /\ UNCHANGED <<valueVars, batchVars, inputVars, options, calls, found, entity, rest,
                 data, loc, mw>>

(***************************************************************************)
(* Tools.update                                                            *)
(***************************************************************************)
UpdateStart ==
  /\ pc = "controller" /\ verb = "update"
  /\ calls' = Append(calls, [op |-> "findOne", arg |-> [where |-> options["where"]]])
  /\ pc' = "update_findOne"
  /\ UNCHANGED <<valueVars, batchVars, inputVars, options, ctx, writes, found,
                 entity, rest, data, loc, chain, mw>>

\* findOne resolves; if (!entity) return this.error(..., 404); else the values
\* are assigned and save() is called.
UpdateFound ==
  /\ pc = "update_findOne"
  /\ \E e \in Entities \cup {Null} :
       /\ found' = [entity |-> e]
       /\ IF e = Null
          THEN /\ error(MsgNotFound, 404) /\ HandlerReturns
               /\ UNCHANGED <<calls, entity>>
          ELSE /\ entity' = updateAssign(e, options["values"])
               /\ calls' = Append(calls, [op |-> "save", arg |-> entity'])
               /\ pc' = "update_save"
               /\ UNCHANGED <<ctx, writes, chain>>
  /\ UNCHANGED <<valueVars, batchVars, inputVars, options, rest, data, loc, mw>>

UpdateSaved ==
  /\ pc = "update_save"
  /\ response(Undefined, 204)
  /\ HandlerReturns
  /\ UNCHANGED <<valueVars, batchVars, inputVars, options, calls, found, entity, rest,
                 data, loc, mw>>

(***************************************************************************)
(* Tools.destroy                                                           *)
(***************************************************************************)
DestroyStart ==
  /\ pc = "controller" /\ verb = "destroy"
  /\ calls' = Append(calls, [op |-> "findOne", arg |-> [where |-> options]])
  /\ pc' = "destroy_findOne"
  /\ UNCHANGED <<valueVars, batchVars, inputVars, options, ctx, writes, found,
                 entity, rest, data, loc, chain, mw>>

DestroyFound ==
  /\ pc = "destroy_findOne"
  /\ \E e \in Entities \cup {Null} :
       /\ found' = [entity |-> e]
       /\ IF e = Null
          THEN error(MsgNotFound, 404) /\ HandlerReturns /\ UNCHANGED calls
          ELSE /\ calls' = Append(calls, [op |-> "destroy", arg |-> e])
               /\ pc' = "destroy_destroy"
               /\ UNCHANGED <<ctx, writes, chain>>
  /\ UNCHANGED <<valueVars, batchVars, inputVars, options, entity, rest, data, loc, mw>>

DestroyDestroyed ==
  /\ pc = "destroy_destroy"
  /\ response(Undefined, 204)
  /\ HandlerReturns
  /\ UNCHANGED <<valueVars, batchVars, inputVars, options, calls, found, entity, rest,
                 data, loc, mw>>

(***************************************************************************)
(* Tools.show                                                              *)
(***************************************************************************)
ShowStart ==
  /\ pc = "controller" /\ verb = "show"
  /\ calls' = Append(calls, [op |-> "findOne", arg |-> [where |-> options]])
  /\ pc' = "show_findOne"
  /\ UNCHANGED <<valueVars, batchVars, inputVars, options, ctx, writes, found,
                 entity, rest, data, loc, chain, mw>>

ShowFound ==
  /\ pc = "show_findOne"
  /\ \E e \in Entities \cup {Null} :
       /\ found' = [entity |-> e]
       /\ IF e = Null
          THEN error(MsgNotFound, 404) /\ HandlerReturns /\ UNCHANGED calls
          ELSE /\ calls' = Append(calls, render(e, renderFn).call)
               /\ pc' = "show_render"
               /\ UNCHANGED <<ctx, writes, chain>>
  /\ UNCHANGED <<valueVars, batchVars, inputVars, options, entity, rest, data, loc, mw>>

\* let data = (the rendered entity); if (append) data = append(data);
\* this.response(data, 200)
ShowRendered ==
  /\ pc = "show_render"
  /\ LET rendered == render(found.entity, renderFn).result
     IN IF Truthy(appendFn)
        THEN /\ calls' = Append(calls, [op |-> "append", arg |-> rendered])
             /\ response(Appended(rendered), 200)
        ELSE /\ UNCHANGED calls
             /\ response(rendered, 200)
  /\ HandlerReturns
  /\ UNCHANGED <<valueVars, batchVars, inputVars, options, found, entity, rest,
                 data, loc, mw>>

(***************************************************************************)
(* Tools.index                                                             *)
(***************************************************************************)
\* The result is built, appended to if append is given, and written.
IndexFinish(opts, callsNow, dataNow, q, total) ==
  /\ LET result == indexResult(opts, dataNow, q.page, total)
     IN IF Truthy(appendFn)
        THEN /\ calls' = Append(callsNow, [op |-> "append", arg |-> result])
             /\ response(Appended(result), 200)
        ELSE /\ calls' = callsNow
             /\ response(result, 200)
  /\ HandlerReturns

\* Mutant: the total is counted whatever with_total says.
IndexAfterDataAlwaysCounts(opts, callsNow, dataNow, q) ==
  /\ calls' = Append(callsNow, [op |-> "count", arg |-> opts])
  /\ pc' = "index_count"
  /\ UNCHANGED <<ctx, writes, chain>>

\* const total = with_total ? await model.count(options) : undefined, and on.
IndexAfterData(opts, callsNow, dataNow, q) ==
  IF Truthy(q.with_total)
  THEN /\ calls' = Append(callsNow, [op |-> "count", arg |-> opts])
       /\ pc' = "index_count"
       /\ UNCHANGED <<ctx, writes, chain>>
  ELSE IndexFinish(opts, callsNow, dataNow, q, Undefined)

\* for (const entity of list) data.push(await this.render(entity, render)):
\* the next entity is handed to this.render, or the loop is over.
IndexRenderNext(callsNow, dataNow, remaining) ==
  /\ data' = dataNow
  /\ rest' = remaining
  /\ IF remaining = <<>>
     THEN IndexAfterData(options, callsNow, dataNow, loc)
     ELSE /\ calls' = Append(callsNow, render(Head(remaining), renderFn).call)
          /\ pc' = "index_render"
          /\ UNCHANGED <<ctx, writes, chain>>

\* The query controls are resolved and the pagination is set; then findAll is
\* called if with_data, else the handler goes on to the total.
IndexStart ==
  /\ pc = "controller" /\ verb = "index"
  /\ LET r == getQuerys(query, indexQueryOptions)
     IN /\ query' = r.source
        /\ IF r.kind = "throw"
           THEN /\ pc' = "chain_done"
                /\ chain' = Threw(r.value)
                /\ UNCHANGED <<options, ctx, writes, calls, loc>>
           ELSE LET q == [limit |-> Get(r.value, "limit"),
                          page |-> Get(r.value, "page"),
                          offset |-> Get(r.value, "offset"),
                          with_data |-> Get(r.value, "with_data"),
                          with_total |-> Get(r.value, "with_total")]
                    opts == paginate(options, q.limit, q.page, q.offset)
                IN /\ loc' = q
                   /\ options' = opts
                   /\ IF Truthy(q.with_data)
                      THEN /\ calls' = Append(calls, [op |-> "findAll", arg |-> opts])
                           /\ pc' = "index_findAll"
                           /\ UNCHANGED <<ctx, writes, chain>>
                      ELSE IndexAfterData(opts, calls, <<>>, q)
  /\ UNCHANGED <<valueVars, batchVars, verb, options0, renderFn, appendFn, found,
                 entity, rest, data, mw>>

IndexFoundAll ==
  /\ pc = "index_findAll"
  /\ \E l \in EntityLists(MaxList) :
       /\ found' = [list |-> l]
       /\ IndexRenderNext(calls, <<>>, l)
  /\ UNCHANGED <<valueVars, batchVars, inputVars, options, entity, loc, mw>>

IndexRendered ==
  /\ pc = "index_render"
  /\ IndexRenderNext(calls, Append(data, render(Head(rest), renderFn).result), Tail(rest))
  /\ UNCHANGED <<valueVars, batchVars, inputVars, options, found, entity, loc, mw>>

IndexCounted ==
  /\ pc = "index_count"
  /\ \E total \in Totals : IndexFinish(options, calls, data, loc, total)
  /\ UNCHANGED <<valueVars, batchVars, inputVars, options, found, entity, rest, data,
                 loc, mw>>

(***************************************************************************)
(* The middleware of app/middleware/restful.js                             *)
(***************************************************************************)
\* await next(ctx) returns: the middleware is over.
MiddlewareReturn ==
  /\ pc = "chain_done" /\ chain.kind = "returned"
  /\ pc' = "done"
  /\ mw' = Returned
  /\ UNCHANGED <<valueVars, batchVars, inputVars, options, ctx, writes, calls, found,
                 entity, rest, data, loc, chain>>

\* catch (e) { const { msg, status } = e; if (!isHttpError(e)) throw e;
\* ctx.status = status; ctx.body = { msg }; }
MiddlewareCatch ==
  /\ pc = "chain_done" /\ chain.kind = "threw"
  /\ pc' = "done"
  /\ LET e == chain.value
         d == destructure(e)
     IN IF d.kind = "throw"
        THEN mw' = Threw(d.value) /\ UNCHANGED <<ctx, writes>>
        ELSE IF ~isHttpError(e)
        THEN mw' = Threw(e) /\ UNCHANGED <<ctx, writes>>
        ELSE /\ ctx' = [status |-> d.status, body |-> Obj([msg |-> d.msg])]
             /\ writes' = Append(writes, [by |-> "middleware", status |-> d.status,
                                          body |-> Obj([msg |-> d.msg])])
             /\ mw' = Returned
  /\ UNCHANGED <<valueVars, batchVars, inputVars, options, calls, found, entity, rest,
                 data, loc, chain>>

\* The single-entity verbs, and a controller of its own, behind the middleware.
Next ==
  \/ MiddlewareEnter \/ ControllerOther \/ ModelCallFails
  \/ CreateStart \/ CreateFound \/ CreateRendered
  \/ UpdateStart \/ UpdateFound \/ UpdateSaved
  \/ DestroyStart \/ DestroyFound \/ DestroyDestroyed
  \/ ShowStart \/ ShowFound \/ ShowRendered
  \/ MiddlewareReturn \/ MiddlewareCatch

Spec == Init /\ [][Next]_vars

\* index behind the middleware.
NextIndex ==
  \/ MiddlewareEnter \/ ModelCallFails
  \/ IndexStart \/ IndexFoundAll \/ IndexRendered \/ IndexCounted
  \/ MiddlewareReturn \/ MiddlewareCatch

SpecIndex == InitIndex /\ [][NextIndex]_vars

(***************************************************************************)
(* Claims about getValue                                                   *)
(***************************************************************************)
\* The error getValue is configured with: options.error, or the default 400.
ConfiguredError(fo) ==
  IF "error" \in DOMAIN fo THEN fo["error"]
  ELSE createHttpError(Str(MsgBadFormat), Num(400))

RoleCalls(log, role) == {i \in 1..Len(log) : log[i].role = role}

\* C1: on an absent value getValue throws exactly the configured error when
\* require is true and otherwise returns options.default unchanged (possibly
\* absent); neither the validator nor the conversion is called, and with
\* require true the default is never returned.
C1_AbsentValue ==
  (gvResult # None /\ gvValue = Undefined) =>
    /\ gvResult.calls = <<>>
    /\ IF Get(gvOptions, "require") = Bool(TRUE)
       THEN gvResult.kind = "throw" /\ gvResult.value = ConfiguredError(gvOptions)
       ELSE gvResult.kind = "return" /\ gvResult.value = Get(gvOptions, "default")

C1_Witness ==
  /\ gvResult # None /\ gvValue = Undefined
  /\ Get(gvOptions, "require") = Bool(TRUE)
  /\ "default" \in DOMAIN gvOptions
  /\ "validator" \in DOMAIN gvOptions
  /\ gvResult.kind = "throw"

\* What the configured validator answers on the raw value v.
ValidatorPasses(fo, v) ==
  LET p == Get(fo, "validator")
  IN \/ p = Undefined
     \/ p.t = "function" /\ Apply(p, <<v>>) = Bool(TRUE)
     \/ p.t = "array" /\ Apply(p.items[1], <<v, p.items[2]>>) = Bool(TRUE)

\* What the configured conversion makes of the raw value v.
Converted(fo, v) ==
  LET ty == Get(fo, "type")
  IN IF ty = Undefined THEN v
     ELSE IF ty.t = "function" THEN Apply(ty, <<v>>)
     ELSE Apply(ty.items[1], <<v>> \o Tail(ty.items))

\* C2: on a present value, a configured validator that answers false makes
\* getValue throw the configured error without calling the conversion;
\* otherwise the result is the value itself when no type is configured and
\* t(v) or t(v, ...extraArgs) when one is.  The validator is called before the
\* conversion and on the raw value.
C2_PresentValue ==
  (gvResult # None /\ gvValue # Undefined) =>
    LET log == gvResult.calls
    IN /\ IF ValidatorPasses(gvOptions, gvValue)
          THEN /\ gvResult.kind = "return"
               /\ gvResult.value = Converted(gvOptions, gvValue)
          ELSE /\ gvResult.kind = "throw"
               /\ gvResult.value = ConfiguredError(gvOptions)
               /\ RoleCalls(log, "type") = {}
       /\ \A i \in RoleCalls(log, "validator") :
            /\ log[i].args[1] = gvValue
            /\ \A j \in RoleCalls(log, "type") : i < j
       /\ ("validator" \in DOMAIN gvOptions) => RoleCalls(log, "validator") # {}
       /\ \A j \in RoleCalls(log, "type") :
            log[j].args = <<gvValue>> \o
              (IF gvOptions["type"].t = "array" THEN Tail(gvOptions["type"].items)
               ELSE <<>>)

C2_Witness ==
  /\ gvResult # None /\ gvValue = Str(<<"1", "0">>)
  /\ Get(gvOptions, "validator") = Arr(<<Fn("isInt"), Obj([min |-> Num(1)])>>)
  /\ Get(gvOptions, "type") = Arr(<<Fn("parseInt"), Num(16)>>)
  /\ gvResult.kind = "return" /\ gvResult.value = Num(16)
  /\ Len(gvResult.calls) = 2

(***************************************************************************)
(* Claims about the batch calls                                            *)
(***************************************************************************)
BatchNamesOf(bo) == {bo[i][1] : i \in 1..Len(bo)}

\* What getValue makes of entry i of the bo over the source map.
FieldResult(src, bo, i) == getValue(Get(src, bo[i][1]), bo[i][2])

\* C8: a batch call returns a new map in which every source key the options
\* do not name keeps its value and every named key, present in the source or
\* not, holds getValue(source[name], options[name]); the source map is never
\* changed; with no options the result equals the source; and when a named
\* field fails the call throws that field's error and returns nothing.
C8_Batch ==
  (bResult # None) =>
    LET src == bCtx0[bKind]
        failing == {i \in 1..Len(bOptions) : FieldResult(src, bOptions, i).kind = "throw"}
    IN /\ bCtx = bCtx0
       /\ IF failing # {}
          THEN /\ bResult.kind = "throw"
               /\ \E i \in failing : bResult.value = FieldResult(src, bOptions, i).value
          ELSE /\ bResult.kind = "return"
               /\ DOMAIN bResult.value = (DOMAIN src) \cup BatchNamesOf(bOptions)
               /\ \A k \in (DOMAIN src) \ BatchNamesOf(bOptions) :
                    bResult.value[k] = src[k]
               /\ \A i \in 1..Len(bOptions) :
                    bResult.value[bOptions[i][1]] = FieldResult(src, bOptions, i).value
               /\ (bOptions = <<>>) => bResult.value = src

C8_Witness ==
  /\ bResult # None /\ bResult.kind = "return"
  /\ Len(bOptions) = 2
  /\ "z" \in DOMAIN bCtx0[bKind]
  /\ \E i \in 1..2 : bOptions[i][1] \notin DOMAIN bCtx0[bKind]
  /\ \E i \in 1..2 : bResult.value[bOptions[i][1]] = Num(1)

(***************************************************************************)
(* Claims about the verb handlers and the middleware                       *)
(***************************************************************************)
\* The positions in the call log of the calls of one operation.
CallOps(op) == {i \in 1..Len(calls) : calls[i].op = op}

WritesBy(who) == {i \in 1..Len(writes) : writes[i].by = who}

\* The number a drawn query string denotes.
QueryNumber(x) ==
  CASE x = Str(<<"1">>) -> Num(1)
    [] x = Str(<<"2">>) -> Num(2)
    [] x = Str(<<"5">>) -> Num(5)
    [] x = Str(<<"1", "0">>) -> Num(10)
    [] OTHER -> NaN

\* Two objects agree on every key outside keys.
SameExcept(o1, o2, keys) ==
  \A k \in ((DOMAIN o1) \cup (DOMAIN o2)) \ keys :
    k \in DOMAIN o1 /\ k \in DOMAIN o2 /\ o1[k] = o2[k]

\* C3: once index has resolved its query controls, with page or offset
\* present options.limit is the query limit or else 20 and options.offset is
\* (page-1)*options.limit when page is given and the offset otherwise; with
\* only limit present only options.limit is set; with none of the three the
\* options are as the caller passed them.
C3_Pagination ==
  (verb = "index" /\ loc # None) =>
    LET lim == Get(query, "limit")
        pg == Get(query, "page")
        off == Get(query, "offset")
        newLimit == IF lim # Undefined THEN QueryNumber(lim) ELSE Num(20)
    IN IF pg # Undefined \/ off # Undefined
       THEN /\ Get(options, "limit") = newLimit
            /\ Get(options, "offset") =
                 (IF pg # Undefined THEN Num((QueryNumber(pg).v - 1) * newLimit.v)
                  ELSE QueryNumber(off))
            /\ SameExcept(options, options0, {"limit", "offset"})
       ELSE IF lim # Undefined
       THEN /\ Get(options, "limit") = QueryNumber(lim)
            /\ SameExcept(options, options0, {"limit"})
       ELSE options = options0

C3_Witness ==
  /\ verb = "index" /\ loc # None
  /\ Get(query, "page") = Str(<<"2">>)
  /\ Get(query, "limit") = Str(<<"1", "0">>)
  /\ Get(query, "offset") = Str(<<"5">>)
  /\ Get(options0, "limit") = Num(7)
  /\ Get(options, "limit") = Num(10)
  /\ Get(options, "offset") = Num(10)

\* Whether a boolean query control resolves to true: absent, 'true' or '1'.
ResolvesTrue(name) == Get(query, name) \in {Undefined, Str(StrTrue), Str(<<"1">>)}

\* The result index builds when neither data nor total is asked for.
EmptyResult ==
  Obj([data |-> Arr(<<>>),
       meta |-> Obj([limit |-> Get(options, "limit"),
                     page |-> (IF "page" \in DOMAIN query
                               THEN QueryNumber(query["page"]) ELSE Undefined),
                     offset |-> Get(options, "offset"),
                     total |-> Undefined])])

\* The rendered entities of the list findAll resolved with, in its order.
RenderedList ==
  IF found = None THEN <<>>
  ELSE [i \in 1..Len(found.list) |-> render(found.list[i], renderFn).result]

\* The result under the body index wrote: the body, or what append was given.
ResultOfBody == IF Truthy(appendFn) THEN ctx.body.fields["appended"] ELSE ctx.body

\* C4 as stated: on completion findAll was called once iff with_data and count
\* once iff with_total, findAll before count; and with both false no model call
\* is made and the body is {data: [], meta: {limit, page, offset, total:
\* undefined}}, status 200.
C4_Original ==
  (verb = "index" /\ chain = Returned) =>
    /\ Cardinality(CallOps("findAll")) = (IF ResolvesTrue("with_data") THEN 1 ELSE 0)
    /\ Cardinality(CallOps("count")) = (IF ResolvesTrue("with_total") THEN 1 ELSE 0)
    /\ (~ResolvesTrue("with_data") /\ ~ResolvesTrue("with_total")) =>
         /\ CallOps("findAll") \cup CallOps("count") = {}
         /\ ctx = [status |-> Num(200), body |-> EmptyResult]

\* C4 as amended: findAll is called at most once and count at most once,
\* count never before findAll and its renders are over; when index completes
\* findAll was called iff with_data resolves to true and count iff with_total
\* does, and the data list holds the rendered entities in findAll's order;
\* with both false no model call is made and the response is status 200 with
\* {data: [], meta: {limit, page, offset, total: undefined}} as its body when
\* no append function is given, and append of that object when one is.
C4_IndexCalls ==
  (verb = "index") =>
    /\ Cardinality(CallOps("findAll")) <= 1
    /\ Cardinality(CallOps("count")) <= 1
    /\ (pc \in {"index_findAll", "index_render"}) => CallOps("count") = {}
    /\ \A i \in CallOps("count") : \A j \in CallOps("findAll") : j < i
    /\ (chain = Returned) =>
         /\ Cardinality(CallOps("findAll")) = (IF ResolvesTrue("with_data") THEN 1 ELSE 0)
         /\ Cardinality(CallOps("count")) = (IF ResolvesTrue("with_total") THEN 1 ELSE 0)
         /\ ctx.status = Num(200)
         /\ ctx.body = (IF Truthy(appendFn) THEN Appended(ResultOfBody) ELSE ResultOfBody)
         /\ ResultOfBody.fields["data"] = Arr(RenderedList)
         /\ (~ResolvesTrue("with_data") /\ ~ResolvesTrue("with_total")) =>
              /\ CallOps("findAll") \cup CallOps("count") = {}
              /\ ResultOfBody = EmptyResult

C4_Witness ==
  /\ verb = "index" /\ chain = Returned
  /\ Get(query, "with_data") = Undefined
  /\ Get(query, "with_total") = Str(<<"1">>)
  /\ found # None /\ found.list = <<Entity(2), Entity(1)>>
  /\ Truthy(appendFn)
  /\ Cardinality(CallOps("count")) = 1

\* C10: the request index hands to model.count is the caller's filter, the
\* same for every limit, page and offset of the query, with no limit or
\* offset computed from them.
C10_CountArgument ==
  (verb = "index") => \A i \in CallOps("count") : calls[i].arg = options0

\* The four failure cases of the single-entity verbs.
CreateConflict == verb = "create" /\ found # None /\ found.status = Bool(FALSE)

NotFound ==
  verb \in {"update", "destroy", "show"} /\ found # None /\ found.entity = Null

\* C5: when findOrCreate reports the entity was not created the response is
\* the 'resource already exists' message with status 409 and render is never
\* called; when findOne resolves with null in update, destroy or show the
\* response is the 'resource not found' message with status 404 and no further
\* model or entity call is made; the response is written exactly once.
C5_FailurePaths ==
  /\ CreateConflict =>
       /\ ctx = [status |-> Num(409), body |-> Obj([msg |-> Str(MsgExists)])]
       /\ calls = <<[op |-> "findOrCreate", arg |-> options0]>>
       /\ Len(writes) = 1
  /\ NotFound =>
       /\ ctx = [status |-> Num(404), body |-> Obj([msg |-> Str(MsgNotFound)])]
       /\ Len(calls) = 1 /\ calls[1].op = "findOne"
       /\ Len(writes) = 1

C5_Witness == pc = "done" /\ CreateConflict /\ ctx.status = Num(409)

\* C6: update on an existing entity assigns values[key] for exactly the keys
\* whose value is not undefined and leaves every other field alone; the
\* assignments precede save(), which is called once; the response, an empty
\* body with status 204, is written only after save() completes; if save()
\* fails update writes no response and the error propagates.
C6_Update ==
  (verb = "update" /\ found # None /\ found.entity # Null) =>
    LET e0 == found.entity
        vals == options0["values"]
        set == {k \in DOMAIN vals : vals[k] # Undefined}
    IN /\ DOMAIN entity = (DOMAIN e0) \cup set
       /\ \A k \in set : entity[k] = vals[k]
       /\ \A k \in (DOMAIN e0) \ set : entity[k] = e0[k]
       /\ Cardinality(CallOps("save")) = 1
       /\ \A i \in CallOps("save") : calls[i].arg = entity
       /\ (pc = "update_save") => writes = <<>>
       /\ (chain = Returned) =>
            /\ writes = <<[by |-> "handler", status |-> Num(204), body |-> Undefined]>>
            /\ ctx = [status |-> Num(204), body |-> Undefined]
       /\ (chain # None /\ chain # Returned) =>
            /\ chain = Threw(DbError)
            /\ writes = <<>>
            /\ (mw # None) => mw = Threw(DbError)

C6_Witness ==
  /\ verb = "update" /\ chain = Returned
  /\ options0["values"] = [a |-> Num(1), b |-> Undefined]
  /\ entity = [found.entity EXCEPT !.a = Num(1)]
  /\ entity.b = Num(0)

\* C7: when the chain throws an object carrying the HttpErrorType marker the
\* middleware completes with ctx.status and ctx.body set from it; when it
\* throws anything else the middleware rethrows that same value and writes
\* nothing; when it completes the middleware changes nothing.
C7_Middleware ==
  (mw # None) =>
    IF chain.kind = "threw" /\ chain.value.t = "object"
       /\ Get(chain.value.fields, "type") = HttpErrorType
    THEN /\ mw = Returned
         /\ ctx = [status |-> chain.value.fields["status"],
                   body |-> Obj([msg |-> chain.value.fields["msg"]])]
    ELSE IF chain.kind = "threw"
    THEN mw = Threw(chain.value) /\ WritesBy("middleware") = {}
    ELSE mw = Returned /\ WritesBy("middleware") = {}

\* C9 as stated: the four failure cases end the handler with a thrown HTTP
\* error, which the middleware turns into the response.
C9_Original ==
  (CreateConflict \/ NotFound) =>
    /\ chain.kind = "threw" /\ isHttpError(chain.value)
    /\ (mw # None) => WritesBy("middleware") # {}

\* C9 as amended: in the four failure cases the handler writes the response
\* itself, {msg} with status 409 or 404, and returns normally; no HTTP error
\* is thrown and the middleware returns without writing anything.
C9_HandlerAnswers ==
  (CreateConflict \/ NotFound) =>
    /\ chain = Returned
    /\ WritesBy("handler") = {1} /\ WritesBy("middleware") = {}
    /\ writes[1].status = (IF CreateConflict THEN Num(409) ELSE Num(404))
    /\ writes[1].body =
         Obj([msg |-> Str(IF CreateConflict THEN MsgExists ELSE MsgNotFound)])
    /\ (mw # None) => mw = Returned

C9_Witness == pc = "done" /\ NotFound /\ verb = "destroy" /\ mw = Returned

=============================================================================
